---- MODULE Spec2Model ----
(***************************************************************************)
(* Model of the definition-level grammar of the Thrift IDL parser          *)
(* (src/src/definition.rs): Const, Typedef, Enum, Struct, Union,           *)
(* Exception and Service, each in a borrowing ("Ref") form and an owned    *)
(* form.                                                                   *)
(*                                                                         *)
(* A source buffer is a sequence of one-character strings.  A parser is    *)
(* an operator P(in, r): `in' is the buffer and `r' the result of the      *)
(* parser that ran before it.  A result is a record                        *)
(*     [ok, kind, pos, val]                                                *)
(* where pos is the 1-based index of the first unconsumed character after  *)
(* a success, and the place the error is positioned at after a failure     *)
(* (nom's Err carries the input at which the failing parser was applied).  *)
(* kind is "Ok", "Error" (nom::Err::Error, recoverable: opt, alt and       *)
(* separated_list0 absorb it) or "Failure" (nom::Err::Failure, which they  *)
(* let through).  A parser given a failed `r' returns it unchanged, which  *)
(* is how nom's tuple/pair/preceded/terminated/delimited propagate the     *)
(* first failure of a sequence.                                            *)
(*                                                                         *)
(* A parser applied to the result of another runs after it:              *)
(*     B(in, A(in, r))                                                     *)
(* is nom's preceded(A, B) applied at r; a tuple is written innermost      *)
(* first,                                                                  *)
(*     Keep(C, in, Keep(B, in, Keep(A, in, Begin(r))))                     *)
(* which runs A, B, C in this order and yields the tuple of their          *)
(* outputs.                                                                *)
(*                                                                         *)
(* Option<T> is a sequence of length 0 (None) or 1 (Some).  A borrowed     *)
(* &str is a slice [s, e) of the buffer; its owned counterpart is the      *)
(* copied sequence of characters.                                          *)
(***************************************************************************)
EXTENDS Integers, Sequences, FiniteSets, TLC

(***************************************************************************)
(* Results and the nom combinators used by definition.rs                   *)
(***************************************************************************)
None == << >>

Some(x) == << x >>

Ok(p, v) == [ok |-> TRUE, kind |-> "Ok", pos |-> p, val |-> v]

Err(p) == [ok |-> FALSE, kind |-> "Error", pos |-> p, val |-> None]

Start == Ok(1, None)

At(in, p) == IF p >= 1 /\ p <= Len(in) THEN in[p] ELSE ""

HasPrefix(in, p, kw) ==
    /\ p + Len(kw) - 1 <= Len(in)
    /\ \A i \in 1..Len(kw) : in[p + i - 1] = kw[i]

\* nom::bytes::complete::tag
Tag(in, r, kw) ==
    IF r.ok
    THEN IF HasPrefix(in, r.pos, kw) THEN Ok(r.pos + Len(kw), kw) ELSE Err(r.pos)
    ELSE r

\* nom::character::complete::char
CChar(in, r, c) ==
    IF r.ok
    THEN IF At(in, r.pos) = c THEN Ok(r.pos + 1, c) ELSE Err(r.pos)
    ELSE r

\* nom::combinator::map: the result r with its value replaced.
WithVal(r, v) == IF r.ok THEN Ok(r.pos, v) ELSE r

\* nom::sequence::tuple: the start of a tuple, with no output yet.
Begin(r) == WithVal(r, << >>)

\* The tuple r followed by the result p of its next parser.
Push(r, p) == IF p.ok THEN Ok(p.pos, Append(r.val, p.val)) ELSE p

Keep(P(_, _), in, r) == IF r.ok THEN Push(r, P(in, r)) ELSE r

\* nom::sequence::preceded
Preceded(A(_, _), B(_, _), in, r) == B(in, A(in, r))

\* The result a followed by the result b of the parser after it, whose
\* output is thrown away.
Then(a, b) == IF b.ok THEN Ok(b.pos, a.val) ELSE b

TerminatedBy(B(_, _), in, a) == IF a.ok THEN Then(a, B(in, a)) ELSE a

\* nom::sequence::terminated
Terminated(A(_, _), B(_, _), in, r) == TerminatedBy(B, in, A(in, r))

\* nom::sequence::delimited
Delimited(A(_, _), B(_, _), C(_, _), in, r) == TerminatedBy(C, in, B(in, A(in, r)))

\* The outputs of a and of the parser after it, as a pair.
Both(a, b) == IF b.ok THEN Ok(b.pos, << a.val, b.val >>) ELSE b

PairWith(B(_, _), in, a) == IF a.ok THEN Both(a, B(in, a)) ELSE a

\* nom::sequence::pair
Pair(A(_, _), B(_, _), in, r) == PairWith(B, in, A(in, r))

\* nom::combinator::opt: r is the result before the optional parser, p the
\* optional parser's result after r.
Opt(r, p) ==
    IF r.ok
    THEN IF p.ok THEN Ok(p.pos, Some(p.val))
    ELSE IF p.kind = "Error" THEN Ok(r.pos, None)
    ELSE p
    ELSE r

\* nom::Err::Error, the failure opt, alt and separated_list0 recover from.
Recoverable(p) == ~p.ok /\ p.kind = "Error"

\* nom::branch::alt: p and q are the results of two alternatives applied at
\* r; the second counts when the first ended in a recoverable
\* error, and the last alternative's error is the error.
Alt(r, p, q) == IF r.ok THEN (IF Recoverable(p) THEN q ELSE p) ELSE r

RECURSIVE SeparatedListMore(_, _, _, _, _)
\* nom::multi::separated_list0 (nom 7), the loop after an element that ended
\* at pos.  A recoverable error of the separator ends the list; a separator
\* that consumed nothing is an error; a recoverable error of the element
\* ends the list before the separator.
SeparatedListMore(Sep(_, _), F(_, _), in, pos, acc) ==
    LET AfterElement(f) ==
            IF f.ok THEN SeparatedListMore(Sep, F, in, f.pos, Append(acc, f.val))
            ELSE IF f.kind = "Error" THEN Ok(pos, acc)
            ELSE f
        AfterSeparator(s) ==
            IF s.ok
            THEN IF s.pos = pos THEN Err(s.pos)
                 ELSE AfterElement(F(in, Ok(s.pos, None)))
            ELSE IF s.kind = "Error" THEN Ok(pos, acc)
            ELSE s
    IN  AfterSeparator(Sep(in, Ok(pos, None)))

\* After the first element f tried at pos: a recoverable error is the empty
\* list.
SeparatedListFirst(Sep(_, _), F(_, _), in, pos, f) ==
    IF f.ok THEN SeparatedListMore(Sep, F, in, f.pos, << f.val >>)
    ELSE IF f.kind = "Error" THEN Ok(pos, << >>)
    ELSE f

SeparatedList0(Sep(_, _), F(_, _), in, r) ==
    IF r.ok
    THEN SeparatedListFirst(Sep, F, in, r.pos, F(in, Ok(r.pos, None)))
    ELSE r

(***************************************************************************)
(* crate::basic: lexical primitives                                        *)
(***************************************************************************)
Lower == {"a", "b", "c", "d", "e", "f", "g", "h", "i", "j", "k", "l", "m",
          "n", "o", "p", "q", "r", "s", "t", "u", "v", "w", "x", "y", "z"}

Upper == {"A", "B", "C", "D", "E", "F", "G", "H", "I", "J", "K", "L", "M",
          "N", "O", "P", "Q", "R", "S", "T", "U", "V", "W", "X", "Y", "Z"}

DigitSeq == <<"0", "1", "2", "3", "4", "5", "6", "7", "8", "9">>

Digit == {DigitSeq[i] : i \in 1..Len(DigitSeq)}

IdentStart == Lower \cup Upper \cup {"_"}

IdentCont == IdentStart \cup Digit

HSpace == {" ", "\t"}

LineEnd == {"\n", "\r"}

WhiteSpace == HSpace \cup LineEnd

\* The least position from p on that is past the end of the buffer or holds
\* a character outside C (SkipClass) or inside C (SkipUntil).
Least(S) == CHOOSE e \in S : \A f \in S : e <= f

SkipClass(in, p, C) ==
    Least({e \in p..(Len(in) + 1) : e > Len(in) \/ in[e] \notin C})

SkipUntil(in, p, C) ==
    Least({e \in p..(Len(in) + 1) : e > Len(in) \/ in[e] \in C})

Slice(s, e) == [s |-> s, e |-> e]

\* The text a slice borrows.
Text(in, sl) == SubSeq(in, sl.s, sl.e - 1)

\* The slice from p to e, when it is not empty.
Run(p, e) == IF e > p THEN Ok(e, Slice(p, e)) ELSE Err(p)

\* Identifier ::= [A-Za-z_][A-Za-z0-9_]*
IdentifierRefParse(in, r) ==
    IF r.ok
    THEN IF At(in, r.pos) \in IdentStart
         THEN Run(r.pos, SkipClass(in, r.pos + 1, IdentCont))
         ELSE Err(r.pos)
    ELSE r

\* Space: a non-empty maximal run of non-newline whitespace.
SpaceParse(in, r) ==
    IF r.ok THEN WithVal(Run(r.pos, SkipClass(in, r.pos, HSpace)), None) ELSE r

\* Linefeed: one newline sequence.
LinefeedParse(in, r) ==
    IF r.ok
    THEN IF At(in, r.pos) = "\n" THEN Ok(r.pos + 1, None)
    ELSE IF At(in, r.pos) = "\r" /\ At(in, r.pos + 1) = "\n" THEN Ok(r.pos + 2, None)
    ELSE Err(r.pos)
    ELSE r

\* The positions of the "*/" at or after p.
Closes(in, p) == {c \in p..(Len(in) - 1) : in[c] = "*" /\ in[c + 1] = "/"}

\* The position of the first "*/" at or after p, or 0.
FindClose(in, p) == IF Closes(in, p) = {} THEN 0 ELSE Least(Closes(in, p))

\* The block comment opened at p and closed at c (0: never closed).
BlockComment(p, c) == IF c = 0 THEN Err(p) ELSE Ok(c + 2, Slice(p + 2, c))

\* The line comment opened at p and running to the end of line at e.
LineComment(p, e) == Ok(e, Slice(p + 2, e))

\* Comment: a line comment (marker to end of line, exclusive) or a block
\* comment (non-nesting); the value is the text without the delimiters.
CommentRefParse(in, r) ==
    IF r.ok
    THEN IF HasPrefix(in, r.pos, <<"/", "/">>)
         THEN LineComment(r.pos, SkipUntil(in, r.pos + 2, LineEnd))
    ELSE IF HasPrefix(in, r.pos, <<"/", "*">>)
         THEN BlockComment(r.pos, FindClose(in, r.pos + 2))
    ELSE Err(r.pos)
    ELSE r

RECURSIVE SeparatorEnd(_, _)
\* The end of the maximal run of whitespace and comments starting at p.
SeparatorEnd(in, p) ==
    IF At(in, p) \in WhiteSpace THEN SeparatorEnd(in, SkipClass(in, p, WhiteSpace))
    ELSE IF CommentRefParse(in, Ok(p, None)).ok
         THEN SeparatorEnd(in, CommentRefParse(in, Ok(p, None)).pos)
    ELSE p

\* Separator: a maximal run of whitespace and comments, at least one unit.
SeparatorParse(in, r) ==
    IF r.ok THEN WithVal(Run(r.pos, SeparatorEnd(in, r.pos)), None) ELSE r

\* ListSeparator ::= ',' | ';'
ListSeparatorParse(in, r) ==
    IF r.ok
    THEN IF At(in, r.pos) \in {",", ";"} THEN Ok(r.pos + 1, None) ELSE Err(r.pos)
    ELSE r

\* opt(Separator::parse)
OptSeparator(in, r) == Opt(r, SeparatorParse(in, r))

\* opt(ListSeparator::parse)
OptListSeparator(in, r) == Opt(r, ListSeparatorParse(in, r))

(***************************************************************************)
(* crate::constant                                                         *)
(***************************************************************************)
\* Separator ListSeparator? Separator?
SeparatorThenListSeparator(in, r) ==
    OptSeparator(in, OptListSeparator(in, SeparatorParse(in, r)))

\* ListSeparator Separator?
ListSeparatorThenSeparator(in, r) == OptSeparator(in, ListSeparatorParse(in, r))

\* parse_list_separator: a list separator optionally surrounded by
\* separators, or a bare separator run; never empty.
ParseListSeparator(in, r) ==
    Alt(r, SeparatorThenListSeparator(in, r), ListSeparatorThenSeparator(in, r))

\* opt(parse_list_separator)
OptParseListSeparator(in, r) == Opt(r, ParseListSeparator(in, r))

DigitVal(c) == (CHOOSE i \in 1..Len(DigitSeq) : DigitSeq[i] = c) - 1

RECURSIVE DigitsValue(_, _, _, _)
DigitsValue(in, p, e, acc) ==
    IF p >= e THEN acc ELSE DigitsValue(in, p + 1, e, acc * 10 + DigitVal(in[p]))

\* The digits from d to e read as a number, negated after a '-'.
SignedValue(in, p, d, e) ==
    IF e = d THEN Err(p)
    ELSE Ok(e, IF At(in, p) = "-" THEN 0 - DigitsValue(in, d, e, 0)
               ELSE DigitsValue(in, d, e, 0))

AfterSign(in, p) == IF At(in, p) \in {"+", "-"} THEN p + 1 ELSE p

\* IntConstant ::= ('+' | '-')? Digit+
IntConstantParse(in, r) ==
    IF r.ok
    THEN SignedValue(in, r.pos, AfterSign(in, r.pos),
                     SkipClass(in, AfterSign(in, r.pos), Digit))
    ELSE r

\* The literal opened at p whose closing quote is looked for up to e.
Quoted(in, p, e) == IF e > Len(in) THEN Err(p) ELSE Ok(e + 1, Slice(p + 1, e))

\* Literal: content between two equal quote characters, passed through raw.
LiteralRefParse(in, r) ==
    IF r.ok
    THEN IF At(in, r.pos) \in {"'", "\""}
         THEN Quoted(in, r.pos, SkipUntil(in, r.pos + 1, {At(in, r.pos)}))
         ELSE Err(r.pos)
    ELSE r

IntoInt(p) == WithVal(p, [v |-> "Int", i |-> p.val])

IntoLiteral(p) == WithVal(p, [v |-> "Literal", s |-> p.val])

IntoIdentifier(p) == WithVal(p, [v |-> "Identifier", name |-> p.val])

IntoList(p) == WithVal(p, [v |-> "List", items |-> p.val])

IntoMap(p) == WithVal(p, [v |-> "Map", pairs |-> p.val])

RECURSIVE ConstValueRefParse(_, _)
ConstInt(in, r) == IntoInt(IntConstantParse(in, r))

ConstLiteral(in, r) == IntoLiteral(LiteralRefParse(in, r))

ConstIdentifier(in, r) == IntoIdentifier(IdentifierRefParse(in, r))

\* A character with optional separators before it (Spaced) and also after
\* it (Open).
Spaced(c, in, r) == CChar(in, OptSeparator(in, r), c)

Open(c, in, r) == OptSeparator(in, CChar(in, r, c))

\* The end of a bracketed list: an optional list separator, then the
\* closing bracket.
Close(c, in, r) == Spaced(c, in, OptParseListSeparator(in, r))

ConstListOpen(in, r) == Open("[", in, r)

ConstListItems(in, r) == SeparatedList0(ParseListSeparator, ConstValueRefParse, in, r)

ConstListClose(in, r) == Close("]", in, r)

\* '[' (ConstValue ListSeparator?)* ']'
ConstListParse(in, r) ==
    IntoList(Delimited(ConstListOpen, ConstListItems, ConstListClose, in, r))

Colon(in, r) == OptSeparator(in, Spaced(":", in, r))

ConstPairValue(in, r) == ConstValueRefParse(in, Colon(in, r))

\* One entry of a map constant: ConstValue ':' ConstValue
ConstPairRefParse(in, r) == Pair(ConstValueRefParse, ConstPairValue, in, r)

ConstMapOpen(in, r) == Open("{", in, r)

ConstMapPairs(in, r) == SeparatedList0(ParseListSeparator, ConstPairRefParse, in, r)

ConstMapClose(in, r) == Close("}", in, r)

\* '{' (ConstValue ':' ConstValue ListSeparator?)* '}'
ConstMapParse(in, r) ==
    IntoMap(Delimited(ConstMapOpen, ConstMapPairs, ConstMapClose, in, r))

\* ConstValue: integer, string literal, list, map, identifier, in this
\* order.  (The floating-point alternative stands after the integer one and
\* every float begins with an integer, so it is never taken.)
ConstValueRefParse(in, r) ==
    Alt(r, ConstInt(in, r),
    Alt(r, ConstLiteral(in, r),
    Alt(r, ConstListParse(in, r),
    Alt(r, ConstMapParse(in, r), ConstIdentifier(in, r)))))

(***************************************************************************)
(* crate::types                                                            *)
(***************************************************************************)
kw_const == <<"c", "o", "n", "s", "t">>

kw_typedef == <<"t", "y", "p", "e", "d", "e", "f">>

kw_enum == <<"e", "n", "u", "m">>

kw_struct == <<"s", "t", "r", "u", "c", "t">>

kw_union == <<"u", "n", "i", "o", "n">>

kw_exception == <<"e", "x", "c", "e", "p", "t", "i", "o", "n">>

kw_service == <<"s", "e", "r", "v", "i", "c", "e">>

kw_extends == <<"e", "x", "t", "e", "n", "d", "s">>

kw_required == <<"r", "e", "q", "u", "i", "r", "e", "d">>

kw_optional == <<"o", "p", "t", "i", "o", "n", "a", "l">>

kw_oneway == <<"o", "n", "e", "w", "a", "y">>

kw_void == <<"v", "o", "i", "d">>

kw_throws == <<"t", "h", "r", "o", "w", "s">>

kw_list == <<"l", "i", "s", "t">>

kw_set == <<"s", "e", "t">>

kw_map == <<"m", "a", "p">>

BaseTypes ==
    << [kw |-> <<"b", "o", "o", "l">>, t |-> "Bool"],
       [kw |-> <<"b", "y", "t", "e">>, t |-> "Byte"],
       [kw |-> <<"i", "8">>, t |-> "I8"],
       [kw |-> <<"i", "1", "6">>, t |-> "I16"],
       [kw |-> <<"i", "3", "2">>, t |-> "I32"],
       [kw |-> <<"i", "6", "4">>, t |-> "I64"],
       [kw |-> <<"d", "o", "u", "b", "l", "e">>, t |-> "Double"],
       [kw |-> <<"s", "t", "r", "i", "n", "g">>, t |-> "String"],
       [kw |-> <<"b", "i", "n", "a", "r", "y">>, t |-> "Binary"] >>

\* The base types whose keyword stands at p.
BaseTypesAt(in, p) == {i \in 1..Len(BaseTypes) : HasPrefix(in, p, BaseTypes[i].kw)}

BaseType(p, i) == Ok(p + Len(BaseTypes[i].kw), [t |-> BaseTypes[i].t])

\* FieldType::parse_base_type: the fixed keyword set, each a discriminant.
ParseBaseType(in, r) ==
    IF r.ok
    THEN IF BaseTypesAt(in, r.pos) = {} THEN Err(r.pos)
    ELSE BaseType(r.pos, Least(BaseTypesAt(in, r.pos)))
    ELSE r

IntoListType(p) == WithVal(p, [t |-> "List", elem |-> p.val])

IntoSetType(p) == WithVal(p, [t |-> "Set", elem |-> p.val])

IntoMapType(p) == WithVal(p, [t |-> "Map", key |-> p.val[1], value |-> p.val[2]])

IntoNamedType(p) == WithVal(p, [t |-> "Identifier", name |-> p.val])

RECURSIVE FieldTypeRefParse(_, _)
\* '<' and '>' with optional separators around them.
Left(in, r) == Open("<", in, OptSeparator(in, r))

Right(in, r) == Spaced(">", in, r)

ListOpen(in, r) == Left(in, Tag(in, r, kw_list))

\* 'list' '<' FieldType '>'
ListType(in, r) == IntoListType(Delimited(ListOpen, FieldTypeRefParse, Right, in, r))

SetOpen(in, r) == Left(in, Tag(in, r, kw_set))

\* 'set' '<' FieldType '>'
SetType(in, r) == IntoSetType(Delimited(SetOpen, FieldTypeRefParse, Right, in, r))

MapOpen(in, r) == Left(in, Tag(in, r, kw_map))

Comma(in, r) == Open(",", in, OptSeparator(in, r))

MapKey(in, r) == Delimited(MapOpen, FieldTypeRefParse, Comma, in, r)

MapValue(in, r) == Terminated(FieldTypeRefParse, Right, in, r)

\* 'map' '<' FieldType ',' FieldType '>'
MapType(in, r) == IntoMapType(Pair(MapKey, MapValue, in, r))

\* FieldType::parse_container_type: list<T>, set<T>, map<K,V>.
ParseContainerType(in, r) == Alt(r, ListType(in, r), Alt(r, SetType(in, r), MapType(in, r)))

NamedType(in, r) == IntoNamedType(IdentifierRefParse(in, r))

\* FieldType: base type, else container type, else a named reference.
FieldTypeRefParse(in, r) ==
    Alt(r, ParseBaseType(in, r), Alt(r, ParseContainerType(in, r), NamedType(in, r)))

(***************************************************************************)
(* crate::field                                                            *)
(***************************************************************************)
\* FieldID ::= IntConstant ':'
FieldId(in, r) == Terminated(IntConstantParse, Colon, in, r)

OptFieldId(in, r) == Opt(r, FieldId(in, r))

RequiredKeyword(in, r) == WithVal(Tag(in, r, kw_required), TRUE)

OptionalKeyword(in, r) == WithVal(Tag(in, r, kw_optional), FALSE)

RequirednessKeyword(in, r) == Alt(r, RequiredKeyword(in, r), OptionalKeyword(in, r))

\* FieldReq ::= 'required' | 'optional', followed by a separator
FieldReq(in, r) == Terminated(RequirednessKeyword, SeparatorParse, in, r)

OptFieldReq(in, r) == Opt(r, FieldReq(in, r))

\* preceded(Separator::parse, IdentifierRef::parse)
SeparatorThenIdentifier(in, r) == IdentifierRefParse(in, SeparatorParse(in, r))

\* cchar('=') without the optional separator before it.
EqualsSignUnspaced(in, r) == CChar(in, r, "=")

\* preceded(opt(Separator::parse), cchar('='))
EqualsSign(in, r) == Spaced("=", in, r)

\* preceded(opt(Separator::parse), ConstValueRef::parse)
SeparatorThenConstValue(in, r) == ConstValueRefParse(in, OptSeparator(in, r))

\* '=' ConstValue
FieldDefault(in, r) == SeparatorThenConstValue(in, EqualsSign(in, r))

OptFieldDefault(in, r) == Opt(r, FieldDefault(in, r))

\* pair(opt(Separator::parse), ListSeparator::parse)
TrailingListSeparator(in, r) == ListSeparatorParse(in, OptSeparator(in, r))

\* The trailing list separator left in the remainder.
TrailingListSeparatorLeft(in, r) == WithVal(r, None)

\* opt(pair(opt(Separator::parse), ListSeparator::parse))
OptTrailingListSeparator(in, r) == Opt(r, TrailingListSeparator(in, r))

FieldRefBuild(t) ==
    WithVal(t, [id |-> t.val[1], required |-> t.val[2], type_ |-> t.val[3],
                name |-> t.val[4], default |-> t.val[5]])

\* Field ::= FieldID? FieldReq? FieldType Identifier ('=' ConstValue)?
\*           ListSeparator?
\* required is Option<bool>: Some(true) required, Some(false) optional, None
\* unspecified (test_struct, definition.rs:564-577).  The field takes its own
\* trailing list separator and leaves the whitespace after it to the list
\* (test_struct: "name; 2:i32" and "name ; 2 : i32" under
\* separated_list0(Separator, Field)).
FieldRefParse(in, r) ==
    FieldRefBuild(
    Keep(OptTrailingListSeparator, in,
    Keep(OptFieldDefault, in,
    Keep(SeparatorThenIdentifier, in,
    Keep(FieldTypeRefParse, in,
    Keep(OptFieldReq, in,
    Keep(OptFieldId, in, Begin(r))))))))

(***************************************************************************)
(* crate::functions                                                        *)
(***************************************************************************)
\* 'oneway' followed by a separator
Oneway(in, r) == SeparatorParse(in, Tag(in, r, kw_oneway))

OptOneway(in, r) == Opt(r, Oneway(in, r))

Void(in, r) == WithVal(Tag(in, r, kw_void), None)

IntoSome(p) == WithVal(p, Some(p.val))

Returns(in, r) == IntoSome(FieldTypeRefParse(in, r))

\* FunctionType ::= FieldType | 'void'
FunctionType(in, r) == Alt(r, Void(in, r), Returns(in, r))

FieldListOpen(in, r) == Open("(", in, OptSeparator(in, r))

FieldListFields(in, r) == SeparatedList0(SeparatorParse, FieldRefParse, in, r)

FieldListClose(in, r) == Spaced(")", in, r)

\* '(' Field* ')'
FieldList(in, r) ==
    Delimited(FieldListOpen, FieldListFields, FieldListClose, in, r)

\* Throws ::= 'throws' '(' Field* ')'
Throws(in, r) == FieldList(in, Tag(in, OptSeparator(in, r), kw_throws))

OptThrows(in, r) == Opt(r, Throws(in, r))

FunctionRefBuild(t) ==
    WithVal(t, [oneway |-> t.val[1] # None, returns |-> t.val[2], name |-> t.val[3],
                parameters |-> t.val[4], exceptions |-> t.val[5]])

\* Function ::= 'oneway'? FunctionType Identifier '(' Field* ')' Throws?
\*              ListSeparator?
\* returns is None for void (test_service, definition.rs:596-608).
FunctionRefParse(in, r) ==
    FunctionRefBuild(
    Keep(OptTrailingListSeparator, in,
    Keep(OptThrows, in,
    Keep(FieldList, in,
    Keep(SeparatorThenIdentifier, in,
    Keep(FunctionType, in,
    Keep(OptOneway, in, Begin(r))))))))

(***************************************************************************)
(* Conversions of the leaves to their owned forms (From<...Ref>)           *)
(***************************************************************************)
IdentifierFrom(in, sl) == Text(in, sl)

CommentFrom(in, sl) == Text(in, sl)

LiteralFrom(in, sl) == Text(in, sl)

\* Option::map(Into::into)
OptionMap(F(_, _), in, o) == IF o = None THEN None ELSE Some(F(in, o[1]))

\* into_iter().map(Into::into).collect()
VecMap(F(_, _), in, s) == [i \in 1..Len(s) |-> F(in, s[i])]

RECURSIVE ConstValueFrom(_, _)
ConstPairFrom(in, kv) == <<ConstValueFrom(in, kv[1]), ConstValueFrom(in, kv[2])>>

ConstValueFrom(in, c) ==
    CASE c.v = "Int" -> c
      [] c.v = "Literal" -> [v |-> "Literal", s |-> LiteralFrom(in, c.s)]
      [] c.v = "Identifier" -> [v |-> "Identifier", name |-> IdentifierFrom(in, c.name)]
      [] c.v = "List" -> [v |-> "List", items |-> VecMap(ConstValueFrom, in, c.items)]
      [] c.v = "Map" -> [v |-> "Map", pairs |-> VecMap(ConstPairFrom, in, c.pairs)]

RECURSIVE FieldTypeFrom(_, _)
FieldTypeFrom(in, ty) ==
    CASE ty.t = "Identifier" -> [t |-> "Identifier", name |-> IdentifierFrom(in, ty.name)]
      [] ty.t = "List" -> [t |-> "List", elem |-> FieldTypeFrom(in, ty.elem)]
      [] ty.t = "Set" -> [t |-> "Set", elem |-> FieldTypeFrom(in, ty.elem)]
      [] ty.t = "Map" -> [t |-> "Map", key |-> FieldTypeFrom(in, ty.key),
                          value |-> FieldTypeFrom(in, ty.value)]
      [] OTHER -> ty

FieldFrom(in, f) ==
    [id |-> f.id,
     required |-> f.required,
     type_ |-> FieldTypeFrom(in, f.type_),
     name |-> IdentifierFrom(in, f.name),
     default |-> OptionMap(ConstValueFrom, in, f.default)]

FieldsFrom(in, fs) == VecMap(FieldFrom, in, fs)

FunctionFrom(in, f) ==
    [oneway |-> f.oneway,
     returns |-> OptionMap(FieldTypeFrom, in, f.returns),
     name |-> IdentifierFrom(in, f.name),
     parameters |-> VecMap(FieldFrom, in, f.parameters),
     exceptions |-> OptionMap(FieldsFrom, in, f.exceptions)]

\* IResult::map(|(remains, parsed)| (remains, parsed.into()))
MapInto(From(_, _), in, v) == IF v.ok THEN Ok(v.pos, From(in, v.val)) ELSE v

(***************************************************************************)
(* definition.rs                                                           *)
(***************************************************************************)
\* Any separator run, line breaks included, after the line break.
OptSpaceOrLines(in, r) == OptSeparator(in, r)

\* opt(Space::parse)
OptSpace(in, r) == Opt(r, SpaceParse(in, r))

\* The line break without the optional space after it.
LinefeedAlone(in, r) == LinefeedParse(in, r)

\* terminated(Linefeed::parse, opt(Space::parse))
LinefeedThenSpace(in, r) == Terminated(LinefeedParse, OptSpace, in, r)

\* terminated(CommentRef::parse, terminated(Linefeed::parse, opt(Space::parse)))
AttachedComment(in, r) == Terminated(CommentRefParse, LinefeedThenSpace, in, r)

\* opt(terminated(CommentRef::parse, terminated(Linefeed::parse, opt(Space::parse))))
DocComment(in, r) == Opt(r, AttachedComment(in, r))

\* tag("const")
ConstKeyword(in, r) == Tag(in, r, kw_const)

\* preceded(Separator::parse, FieldTypeRef::parse)
SeparatorThenFieldType(in, r) == FieldTypeRefParse(in, SeparatorParse(in, r))

\* |(doc_comment, _, type_, name, _, value, _)| Self { .. }
ConstRefBuild(t) ==
    WithVal(t, [doc_comment |-> t.val[1], name |-> t.val[4],
                type_ |-> t.val[3], value |-> t.val[6]])

\* Const ::= 'const' FieldType Identifier '=' ConstValue ListSeparator?
ConstRefParse(in, r) ==
    ConstRefBuild(
    Keep(OptTrailingListSeparator, in,
    Keep(SeparatorThenConstValue, in,
    Keep(EqualsSign, in,
    Keep(SeparatorThenIdentifier, in,
    Keep(SeparatorThenFieldType, in,
    Keep(ConstKeyword, in,
    Keep(DocComment, in, Begin(r)))))))))

ConstFrom(in, n) ==
    [doc_comment |-> OptionMap(CommentFrom, in, n.doc_comment),
     name |-> IdentifierFrom(in, n.name),
     type_ |-> FieldTypeFrom(in, n.type_),
     value |-> ConstValueFrom(in, n.value)]

ConstParse(in, r) == MapInto(ConstFrom, in, ConstRefParse(in, r))

\* tag("typedef")
TypedefKeyword(in, r) == Tag(in, r, kw_typedef)

\* Any FieldType, named references included.
DefinitionTypeOrNamed(in, r) == FieldTypeRefParse(in, r)

\* alt((FieldTypeRef::parse_base_type, FieldTypeRef::parse_container_type))
DefinitionType(in, r) == Alt(r, ParseBaseType(in, r), ParseContainerType(in, r))

\* preceded(Separator::parse, alt((..)))
SeparatorThenDefinitionType(in, r) == DefinitionType(in, SeparatorParse(in, r))

\* |(doc_comment, _, old, alias)| TypedefRef { .. }
TypedefRefBuild(t) ==
    WithVal(t, [doc_comment |-> t.val[1], old |-> t.val[3], alias |-> t.val[4]])

\* Typedef ::= 'typedef' DefinitionType Identifier
TypedefRefParse(in, r) ==
    TypedefRefBuild(
    Keep(SeparatorThenIdentifier, in,
    Keep(SeparatorThenDefinitionType, in,
    Keep(TypedefKeyword, in,
    Keep(DocComment, in, Begin(r))))))

TypedefFrom(in, n) ==
    [doc_comment |-> OptionMap(CommentFrom, in, n.doc_comment),
     old |-> FieldTypeFrom(in, n.old),
     alias |-> IdentifierFrom(in, n.alias)]

TypedefParse(in, r) == MapInto(TypedefFrom, in, TypedefRefParse(in, r))

\* tag("enum")
EnumKeyword(in, r) == Tag(in, r, kw_enum)

\* tuple((opt(Separator::parse), cchar('{'), opt(Separator::parse)))
OpenBrace(in, r) == Open("{", in, OptSeparator(in, r))

\* The closing brace made optional.
CloseBraceOptional(in, r) == Opt(r, Spaced("}", in, r))

\* preceded(opt(Separator::parse), cchar('}'))
CloseBrace(in, r) == Spaced("}", in, r)

\* tuple((opt(Separator), cchar('='), opt(Separator), IntConstant::parse)),
\* mapped to the IntConstant
EnumValueAssignment(in, r) == IntConstantParse(in, OptSeparator(in, EqualsSign(in, r)))

OptEnumValueAssignment(in, r) == Opt(r, EnumValueAssignment(in, r))

\* |(name, value)| Self { name, value }
EnumValueRefBuild(t) == WithVal(t, [name |-> t.val[1], value |-> t.val[2]])

\* EnumValue: Identifier ('=' IntConstant)?
EnumValueRefParse(in, r) ==
    EnumValueRefBuild(
    Keep(OptEnumValueAssignment, in,
    Keep(IdentifierRefParse, in, Begin(r))))

\* The members separated by ListSeparator::parse, a comma or a semicolon.
EnumValuesByListSeparator(in, r) ==
    SeparatedList0(ListSeparatorThenSeparator, EnumValueRefParse, in, r)

\* separated_list0(parse_list_separator, EnumValueRef::parse)
EnumValues(in, r) == SeparatedList0(ParseListSeparator, EnumValueRefParse, in, r)

\* |(doc_comment, _, name, _, children, _, _)| Self { .. }
EnumRefBuild(t) ==
    WithVal(t, [doc_comment |-> t.val[1], name |-> t.val[3], children |-> t.val[5]])

\* Enum ::= 'enum' Identifier '{' (Identifier ('=' IntConstant)? ListSeparator?)* '}'
EnumRefParse(in, r) ==
    EnumRefBuild(
    Keep(CloseBrace, in,
    Keep(OptParseListSeparator, in,
    Keep(EnumValues, in,
    Keep(OpenBrace, in,
    Keep(SeparatorThenIdentifier, in,
    Keep(EnumKeyword, in,
    Keep(DocComment, in, Begin(r)))))))))

EnumValueFrom(in, n) == [name |-> IdentifierFrom(in, n.name), value |-> n.value]

EnumFrom(in, n) ==
    [doc_comment |-> OptionMap(CommentFrom, in, n.doc_comment),
     name |-> IdentifierFrom(in, n.name),
     children |-> VecMap(EnumValueFrom, in, n.children)]

EnumParse(in, r) == MapInto(EnumFrom, in, EnumRefParse(in, r))

EnumValueParse(in, r) == MapInto(EnumValueFrom, in, EnumValueRefParse(in, r))

\* separated_list0(Separator::parse, FieldRef::parse)
Fields(in, r) == SeparatedList0(SeparatorParse, FieldRefParse, in, r)

\* tag("struct") without the separator that has to follow it.
StructKeywordAlone(in, r) == Tag(in, r, kw_struct)

\* pair(tag("struct"), Separator::parse)
StructKeyword(in, r) == SeparatorParse(in, Tag(in, r, kw_struct))

\* |(doc_comment, _, name, _, fields, _)| Self { .. }
StructRefBuild(t) ==
    WithVal(t, [doc_comment |-> t.val[1], name |-> t.val[3], fields |-> t.val[5]])

\* Struct ::= 'struct' Identifier '{' Field* '}'
StructRefParse(in, r) ==
    StructRefBuild(
    Keep(CloseBrace, in,
    Keep(Fields, in,
    Keep(OpenBrace, in,
    Keep(IdentifierRefParse, in,
    Keep(StructKeyword, in,
    Keep(DocComment, in, Begin(r))))))))

\* StructFrom with the fields collected in reverse.
StructFromReversed(in, n) ==
    [doc_comment |-> OptionMap(CommentFrom, in, n.doc_comment),
     name |-> IdentifierFrom(in, n.name),
     fields |-> [i \in 1..Len(n.fields) |-> FieldFrom(in, n.fields[Len(n.fields) + 1 - i])]]

StructFrom(in, n) ==
    [doc_comment |-> OptionMap(CommentFrom, in, n.doc_comment),
     name |-> IdentifierFrom(in, n.name),
     fields |-> VecMap(FieldFrom, in, n.fields)]

StructParse(in, r) == MapInto(StructFrom, in, StructRefParse(in, r))

\* pair(tag("union"), Separator::parse)
UnionKeyword(in, r) == SeparatorParse(in, Tag(in, r, kw_union))

\* |(doc_comment, _, name, _, fields, _)| Self { .. }
UnionRefBuild(t) ==
    WithVal(t, [doc_comment |-> t.val[1], name |-> t.val[3], fields |-> t.val[5]])

\* Union ::= 'union' Identifier '{' Field* '}'
UnionRefParse(in, r) ==
    UnionRefBuild(
    Keep(CloseBrace, in,
    Keep(Fields, in,
    Keep(OpenBrace, in,
    Keep(IdentifierRefParse, in,
    Keep(UnionKeyword, in,
    Keep(DocComment, in, Begin(r))))))))

UnionFrom(in, n) ==
    [doc_comment |-> OptionMap(CommentFrom, in, n.doc_comment),
     name |-> IdentifierFrom(in, n.name),
     fields |-> VecMap(FieldFrom, in, n.fields)]

UnionParse(in, r) == MapInto(UnionFrom, in, UnionRefParse(in, r))

\* pair(tag("exception"), Separator::parse)
ExceptionKeyword(in, r) == SeparatorParse(in, Tag(in, r, kw_exception))

\* |(doc_comment, _, name, _, fields, _)| Self { .. }
ExceptionRefBuild(t) ==
    WithVal(t, [doc_comment |-> t.val[1], name |-> t.val[3], fields |-> t.val[5]])

\* Exception ::= 'exception' Identifier '{' Field* '}'
ExceptionRefParse(in, r) ==
    ExceptionRefBuild(
    Keep(CloseBrace, in,
    Keep(Fields, in,
    Keep(OpenBrace, in,
    Keep(IdentifierRefParse, in,
    Keep(ExceptionKeyword, in,
    Keep(DocComment, in, Begin(r))))))))

ExceptionFrom(in, n) ==
    [doc_comment |-> OptionMap(CommentFrom, in, n.doc_comment),
     name |-> IdentifierFrom(in, n.name),
     fields |-> VecMap(FieldFrom, in, n.fields)]

ExceptionParse(in, r) == MapInto(ExceptionFrom, in, ExceptionRefParse(in, r))

\* pair(tag("service"), Separator::parse)
ServiceKeyword(in, r) == SeparatorParse(in, Tag(in, r, kw_service))

\* delimited(pair(tag("service"), Separator::parse), IdentifierRef::parse,
\*           opt(Separator::parse))
ServiceName(in, r) == Delimited(ServiceKeyword, IdentifierRefParse, OptSeparator, in, r)

\* tuple((tag("extends"), Separator::parse))
ExtendsKeyword(in, r) == SeparatorParse(in, Tag(in, r, kw_extends))

\* tuple((tag("extends"), Separator, IdentifierRef::parse, opt(Separator))),
\* mapped to the identifier
Extends(in, r) == Delimited(ExtendsKeyword, IdentifierRefParse, OptSeparator, in, r)

\* The extends clause parsed and thrown away.
OptExtendsDropped(in, r) == WithVal(Opt(r, Extends(in, r)), None)

OptExtends(in, r) == Opt(r, Extends(in, r))

\* pair(cchar('{'), opt(Separator::parse))
FunctionsOpen(in, r) == Open("{", in, r)

\* separated_list0(Separator::parse, FunctionRef::parse)
FunctionList(in, r) == SeparatedList0(SeparatorParse, FunctionRefParse, in, r)

\* delimited(pair(cchar('{'), opt(Separator)), separated_list0(..),
\*           pair(opt(Separator), cchar('}')))
Functions(in, r) == Delimited(FunctionsOpen, FunctionList, CloseBrace, in, r)

\* |(doc_comment, name, extension, functions)| Self { .. }
ServiceRefBuild(t) ==
    WithVal(t, [doc_comment |-> t.val[1], name |-> t.val[2],
                extension |-> t.val[3], functions |-> t.val[4]])

\* Service ::= 'service' Identifier ( 'extends' Identifier )? '{' Function* '}'
ServiceRefParse(in, r) ==
    ServiceRefBuild(
    Keep(Functions, in,
    Keep(OptExtends, in,
    Keep(ServiceName, in,
    Keep(DocComment, in, Begin(r))))))

\* ServiceFrom without the extension.
ServiceFromWithoutExtension(in, n) ==
    [doc_comment |-> OptionMap(CommentFrom, in, n.doc_comment),
     name |-> IdentifierFrom(in, n.name),
     extension |-> None,
     functions |-> VecMap(FunctionFrom, in, n.functions)]

ServiceFrom(in, n) ==
    [doc_comment |-> OptionMap(CommentFrom, in, n.doc_comment),
     name |-> IdentifierFrom(in, n.name),
     extension |-> OptionMap(IdentifierFrom, in, n.extension),
     functions |-> VecMap(FunctionFrom, in, n.functions)]

ServiceParse(in, r) == MapInto(ServiceFrom, in, ServiceRefParse(in, r))

(***************************************************************************)
(* Source texts                                                            *)
(*                                                                         *)
(* A source text is kept as its sequence of tokens, so that the places     *)
(* where the grammar allows a separator stay known while the text is       *)
(* edited.  A token is a record                                            *)
(*   t    "kw" (the construct keyword), "tok", "gap" (a place between two  *)
(*        tokens where a separator may stand) or "sep" (a place where a    *)
(*        list separator may stand)                                        *)
(*   s    its characters (for a gap: the least separator the grammar       *)
(*        needs there; for a sep: the list separator written)              *)
(*   x    characters added after s: the separators inserted in a gap, the  *)
(*        characters a keyword is misspelled with                          *)
(*   role, f, cls, ann   what the token stands for in the construct, the   *)
(*        field, member or function it belongs to, the class of a type     *)
(*        and the owned value it denotes                                   *)
(***************************************************************************)
Tok(t, s, role, f, cls, ann) ==
    [t |-> t, s |-> s, x |-> << >>, role |-> role, f |-> f, cls |-> cls, ann |-> ann]

Kw(s) == Tok("kw", s, "keyword", 0, "", None)

Plain(s) == Tok("tok", s, "", 0, "", None)

GapR == Tok("gap", <<" ">>, "required", 0, "", None)

GapO == Tok("gap", << >>, "optional", 0, "", None)

ListSep(s, role) == Tok("sep", s, role, 0, "", None)

ConstIsRustEasy ==
    << Kw(<<"c", "o", "n", "s", "t">>),
       GapR,
       Tok("tok", <<"b", "o", "o", "l">>, "type", 0, "base", [t |-> "Bool"]),
       GapR,
       Tok("tok", <<"i", "s", "_", "r", "u", "s", "t", "_", "e", "a", "s", "y">>, "name", 0, "", << >>),
       GapO,
       Plain(<<"=">>),
       GapO,
       Tok("tok", <<"'", "y", "e", "s", "!", "'">>, "value", 0, "", [v |-> "Literal", s |-> <<"y", "e", "s", "!">>]),
       GapO,
       ListSep(<< >>, "trailing") >>

ConstXs ==
    << Kw(<<"c", "o", "n", "s", "t">>),
       GapR,
       Tok("tok", <<"l", "i", "s", "t", "<", "i", "3", "2", ">">>, "type", 0, "container", [t |-> "List", elem |-> [t |-> "I32"]]),
       GapR,
       Tok("tok", <<"x", "s">>, "name", 0, "", << >>),
       GapO,
       Plain(<<"=">>),
       GapO,
       Tok("tok", <<"[", "1", ",", "-", "2", "]">>, "value", 0, "", [v |-> "List", items |-> <<[v |-> "Int", i |-> 1], [v |-> "Int", i |-> -2]>>]),
       GapO,
       ListSep(<<";">>, "trailing"),
       Tok("tok", <<"\n", "e", "n", "u", "m">>, "tail", 0, "", << >>) >>

EnumPL ==
    << Kw(<<"e", "n", "u", "m">>),
       GapR,
       Tok("tok", <<"P", "L">>, "name", 0, "", << >>),
       GapO,
       Plain(<<"{">>),
       GapO,
       Tok("tok", <<"R", "u", "s", "t">>, "member", 1, "", << >>),
       GapO,
       ListSep(<<",">>, "between"),
       GapO,
       Tok("tok", <<"G", "o">>, "member", 2, "", << >>),
       GapO,
       Plain(<<"=">>),
       GapO,
       Tok("tok", <<"2">>, "mvalue", 2, "", 2),
       GapO,
       ListSep(<<",">>, "between"),
       GapO,
       Tok("tok", <<"C", "p", "p">>, "member", 3, "", << >>),
       GapO,
       Plain(<<"=">>),
       GapO,
       Tok("tok", <<"3">>, "mvalue", 3, "", 3),
       GapO,
       ListSep(<< >>, "trailing"),
       GapO,
       Plain(<<"}">>) >>

EnumEmpty ==
    << Kw(<<"e", "n", "u", "m">>),
       GapR,
       Tok("tok", <<"E">>, "name", 0, "", << >>),
       GapO,
       Plain(<<"{">>),
       GapO,
       ListSep(<< >>, "trailing"),
       GapO,
       Plain(<<"}">>) >>

StructUser ==
    << Kw(<<"s", "t", "r", "u", "c", "t">>),
       GapR,
       Tok("tok", <<"u", "s", "e", "r">>, "name", 0, "", << >>),
       GapO,
       Plain(<<"{">>),
       GapO,
       Tok("tok", <<"1">>, "fid", 1, "", 1),
       GapO,
       Plain(<<":">>),
       GapO,
       Tok("tok", <<"o", "p", "t", "i", "o", "n", "a", "l">>, "freq", 1, "", FALSE),
       GapR,
       Tok("tok", <<"s", "t", "r", "i", "n", "g">>, "ftype", 1, "base", [t |-> "String"]),
       GapR,
       Tok("tok", <<"n", "a", "m", "e">>, "fname", 1, "", << >>),
       GapO,
       ListSep(<<";">>, "fieldsep"),
       GapR,
       Tok("tok", <<"2">>, "fid", 2, "", 2),
       GapO,
       Plain(<<":">>),
       GapO,
       Tok("tok", <<"i", "3", "2">>, "ftype", 2, "base", [t |-> "I32"]),
       GapR,
       Tok("tok", <<"a", "g", "e">>, "fname", 2, "", << >>),
       GapO,
       Plain(<<"=">>),
       GapO,
       Tok("tok", <<"1", "8">>, "fdefault", 2, "", [v |-> "Int", i |-> 18]),
       GapO,
       ListSep(<< >>, "trailing"),
       GapO,
       Plain(<<"}">>) >>

UnionU ==
    << Kw(<<"u", "n", "i", "o", "n">>),
       GapR,
       Tok("tok", <<"U">>, "name", 0, "", << >>),
       GapO,
       Plain(<<"{">>),
       GapO,
       Tok("tok", <<"1">>, "fid", 1, "", 1),
       GapO,
       Plain(<<":">>),
       GapO,
       Tok("tok", <<"r", "e", "q", "u", "i", "r", "e", "d">>, "freq", 1, "", TRUE),
       GapR,
       Tok("tok", <<"i", "3", "2">>, "ftype", 1, "base", [t |-> "I32"]),
       GapR,
       Tok("tok", <<"a">>, "fname", 1, "", << >>),
       GapO,
       ListSep(<<",">>, "fieldsep"),
       GapR,
       Tok("tok", <<"F", "o", "o">>, "ftype", 2, "named", [t |-> "Identifier", name |-> <<"F", "o", "o">>]),
       GapR,
       Tok("tok", <<"b">>, "fname", 2, "", << >>),
       GapO,
       ListSep(<< >>, "trailing"),
       GapO,
       Plain(<<"}">>) >>

ExceptionE ==
    << Kw(<<"e", "x", "c", "e", "p", "t", "i", "o", "n">>),
       GapR,
       Tok("tok", <<"E">>, "name", 0, "", << >>),
       GapO,
       Plain(<<"{">>),
       GapO,
       Tok("tok", <<"1">>, "fid", 1, "", 1),
       GapO,
       Plain(<<":">>),
       GapO,
       Tok("tok", <<"s", "t", "r", "i", "n", "g">>, "ftype", 1, "base", [t |-> "String"]),
       GapR,
       Tok("tok", <<"m", "s", "g">>, "fname", 1, "", << >>),
       GapO,
       Plain(<<"=">>),
       GapO,
       Tok("tok", <<"'", "x", "'">>, "fdefault", 1, "", [v |-> "Literal", s |-> <<"x">>]),
       GapO,
       ListSep(<< >>, "fieldsep"),
       GapR,
       Tok("tok", <<"2">>, "fid", 2, "", 2),
       GapO,
       Plain(<<":">>),
       GapO,
       Tok("tok", <<"o", "p", "t", "i", "o", "n", "a", "l">>, "freq", 2, "", FALSE),
       GapR,
       Tok("tok", <<"i", "6", "4">>, "ftype", 2, "base", [t |-> "I64"]),
       GapR,
       Tok("tok", <<"c", "o", "d", "e">>, "fname", 2, "", << >>),
       GapO,
       Plain(<<"=">>),
       GapO,
       Tok("tok", <<"-", "1">>, "fdefault", 2, "", [v |-> "Int", i |-> -1]),
       GapO,
       ListSep(<<";">>, "trailing"),
       GapO,
       Plain(<<"}">>) >>

ServiceDemo ==
    << Kw(<<"s", "e", "r", "v", "i", "c", "e">>),
       GapR,
       Tok("tok", <<"D", "e", "m", "o", "S", "e", "r", "v", "i", "c", "e">>, "name", 0, "", << >>),
       GapR,
       Tok("tok", <<"e", "x", "t", "e", "n", "d", "s">>, "extends", 0, "", << >>),
       GapR,
       Tok("tok", <<"B", "a", "s", "e", "S", "e", "r", "v", "i", "c", "e">>, "base", 0, "", << >>),
       GapO,
       Plain(<<"{">>),
       GapO,
       Tok("tok", <<"s", "t", "r", "i", "n", "g">>, "rtype", 1, "", << >>),
       GapR,
       Tok("tok", <<"G", "e", "t", "U", "s", "e", "r">>, "fnname", 1, "", << >>),
       Plain(<<"(">>),
       Plain(<<"r", "e", "q", "u", "i", "r", "e", "d">>),
       GapR,
       Plain(<<"s", "t", "r", "i", "n", "g">>),
       GapR,
       Plain(<<"n", "a", "m", "e">>),
       Plain(<<")">>),
       ListSep(<<",">>, "fnsep"),
       GapR,
       Tok("tok", <<"s", "t", "r", "i", "n", "g">>, "rtype", 2, "", << >>),
       GapR,
       Tok("tok", <<"G", "e", "t", "U", "s", "e", "r">>, "fnname", 2, "", << >>),
       Plain(<<"(">>),
       Plain(<<"r", "e", "q", "u", "i", "r", "e", "d">>),
       GapR,
       Plain(<<"s", "t", "r", "i", "n", "g">>),
       GapR,
       Plain(<<"n", "a", "m", "e">>),
       Plain(<<")">>),
       GapO,
       Plain(<<"}">>) >>

ServicePing ==
    << Kw(<<"s", "e", "r", "v", "i", "c", "e">>),
       GapR,
       Tok("tok", <<"S">>, "name", 0, "", << >>),
       GapO,
       Plain(<<"{">>),
       GapO,
       Plain(<<"o", "n", "e", "w", "a", "y">>),
       GapR,
       Tok("tok", <<"v", "o", "i", "d">>, "rtype", 1, "", << >>),
       GapR,
       Tok("tok", <<"p", "i", "n", "g">>, "fnname", 1, "", << >>),
       Plain(<<"(">>),
       Plain(<<")">>),
       GapR,
       Tok("tok", <<"i", "3", "2">>, "rtype", 2, "", << >>),
       GapR,
       Tok("tok", <<"g", "e", "t">>, "fnname", 2, "", << >>),
       Plain(<<"(">>),
       Plain(<<"1", ":", "i", "3", "2", " ", "k">>),
       Plain(<<")">>),
       Plain(<<" ", "t", "h", "r", "o", "w", "s", "(", "1", ":", "E", " ", "e", ")">>),
       GapO,
       Plain(<<"}">>) >>

TypedefTypes ==
    << Tok("tok", <<"b", "o", "o", "l">>, "type", 0, "base", [t |-> "Bool"]),
       Tok("tok", <<"b", "y", "t", "e">>, "type", 0, "base", [t |-> "Byte"]),
       Tok("tok", <<"i", "8">>, "type", 0, "base", [t |-> "I8"]),
       Tok("tok", <<"i", "1", "6">>, "type", 0, "base", [t |-> "I16"]),
       Tok("tok", <<"i", "3", "2">>, "type", 0, "base", [t |-> "I32"]),
       Tok("tok", <<"i", "6", "4">>, "type", 0, "base", [t |-> "I64"]),
       Tok("tok", <<"d", "o", "u", "b", "l", "e">>, "type", 0, "base", [t |-> "Double"]),
       Tok("tok", <<"s", "t", "r", "i", "n", "g">>, "type", 0, "base", [t |-> "String"]),
       Tok("tok", <<"b", "i", "n", "a", "r", "y">>, "type", 0, "base", [t |-> "Binary"]),
       Tok("tok", <<"l", "i", "s", "t", "<", "m", "a", "p", "<", "s", "t", "r", "i", "n", "g", ",", "i", "3", "2", ">", ">">>, "type", 0, "container", [t |-> "List", elem |-> [t |-> "Map", key |-> [t |-> "String"], value |-> [t |-> "I32"]]]),
       Tok("tok", <<"s", "e", "t", "<", "F", "o", "o", ">">>, "type", 0, "container", [t |-> "Set", elem |-> [t |-> "Identifier", name |-> <<"F", "o", "o">>]]),
       Tok("tok", <<"m", "a", "p", "<", "i", "8", ",", "b", "i", "n", "a", "r", "y", ">">>, "type", 0, "container", [t |-> "Map", key |-> [t |-> "I8"], value |-> [t |-> "Binary"]]),
       Tok("tok", <<"F", "o", "o">>, "type", 0, "named", [t |-> "Identifier", name |-> <<"F", "o", "o">>]),
       Tok("tok", <<"s", "t", "r", "i", "n", "g", "y">>, "type", 0, "named", [t |-> "Identifier", name |-> <<"s", "t", "r", "i", "n", "g", "y">>]) >>

TypedefOf(type) ==
    << Kw(<<"t", "y", "p", "e", "d", "e", "f">>),
       GapR,
       type,
       GapR,
       Tok("tok", <<"M", "y", "I", "3", "2">>, "alias", 0, "", << >>) >>

DocShapes ==
    { [s |-> <<"/", "*", " ", "d", "o", "c", " ", "*", "/", "\n">>, attached |-> TRUE, text |-> <<" ", "d", "o", "c", " ">>],
      [s |-> <<"/", "/", " ", "d", "o", "c", "\n">>, attached |-> TRUE, text |-> <<" ", "d", "o", "c">>],
      [s |-> <<"/", "*", " ", "d", "o", "c", " ", "*", "/", "\n", " ", "\t">>, attached |-> TRUE, text |-> <<" ", "d", "o", "c", " ">>],
      [s |-> <<"/", "*", " ", "d", "o", "c", " ", "*", "/", "\r", "\n">>, attached |-> TRUE, text |-> <<" ", "d", "o", "c", " ">>],
      [s |-> <<" ">>, attached |-> FALSE, text |-> << >>],
      [s |-> <<"\n">>, attached |-> FALSE, text |-> << >>],
      [s |-> <<"/", "*", " ", "d", "o", "c", " ", "*", "/", " ">>, attached |-> FALSE, text |-> <<" ", "d", "o", "c", " ">>],
      [s |-> <<"/", "*", " ", "d", "o", "c", " ", "*", "/">>, attached |-> FALSE, text |-> <<" ", "d", "o", "c", " ">>],
      [s |-> <<"/", "*", " ", "d", "o", "c", " ", "*", "/", "\n", "\n">>, attached |-> FALSE, text |-> <<" ", "d", "o", "c", " ">>],
      [s |-> <<"/", "*", " ", "a", " ", "*", "/", "\n", "/", "*", " ", "d", "o", "c", " ", "*", "/", "\n">>, attached |-> FALSE, text |-> <<" ", "d", "o", "c", " ">>],
      [s |-> <<"/", "/", " ", "d", "o", "c", "\n", "\n">>, attached |-> FALSE, text |-> <<" ", "d", "o", "c">>] }

NoDoc == [s |-> << >>, attached |-> FALSE, text |-> << >>]

Catalogue ==
    {ConstIsRustEasy, ConstXs, EnumPL, EnumEmpty, StructUser, UnionU, ExceptionE,
     ServiceDemo, ServicePing}
    \cup {TypedefOf(TypedefTypes[i]) : i \in 1..Len(TypedefTypes)}

\* The separators inserted: whitespace, a block comment, a line comment with
\* the line break that ends it.
Units == {<<" ">>, <<"/", "*", "c", "*", "/">>, <<"/", "/", "c", "\n">>}

\* The list separators that may be written at a sep place: between two enum
\* members a ',' a ';' or a bare gap; elsewhere a ',' a ';' or nothing.
SepChoices(role) ==
    IF role = "between" THEN {<<",">>, <<";">>, <<" ">>} ELSE {<< >>, <<",">>, <<";">>}

Misspelling == <<"Z", "Z", "Z">>

MaxEdits == 1

(***************************************************************************)
(* State: the caller's buffer (doc, toks), the number of edits made to it  *)
(* and the result of the one parser the caller ran on it.                  *)
(***************************************************************************)
VARIABLES doc, toks, edits, res

vars == <<doc, toks, edits, res>>

RECURSIVE Flatten(_, _, _)
\* The characters of the tokens a..b of ts, in order.
Flatten(ts, a, b) ==
    IF a > b THEN << >>
    ELSE IF a = b THEN ts[a].s \o ts[a].x
    ELSE Flatten(ts, a, (a + b) \div 2) \o Flatten(ts, (a + b) \div 2 + 1, b)

\* The buffer handed to the parser.
Input == doc.s \o Flatten(toks, 1, Len(toks))

Init ==
    /\ doc = NoDoc
    /\ toks \in Catalogue
    /\ edits = 0
    /\ res = None

CanEdit == res = None /\ edits < MaxEdits

\* Something is written before the keyword: an attached doc comment, or
\* something else.
AttachDoc(d) ==
    /\ CanEdit
    /\ doc = NoDoc
    /\ doc' = d
    /\ edits' = edits + 1
    /\ UNCHANGED <<toks, res>>

\* A separator is inserted between two tokens.
InsertSeparator(i, u) ==
    /\ CanEdit
    /\ toks[i].t = "gap"
    /\ toks' = [toks EXCEPT ![i].x = @ \o u]
    /\ edits' = edits + 1
    /\ UNCHANGED <<doc, res>>

\* A list separator is written, replaced or removed.
ChangeListSeparator(i, c) ==
    /\ CanEdit
    /\ toks[i].t = "sep"
    /\ c \in SepChoices(toks[i].role)
    /\ c # toks[i].s
    /\ toks' = [toks EXCEPT ![i].s = c]
    /\ edits' = edits + 1
    /\ UNCHANGED <<doc, res>>

\* The keyword is misspelled by trailing characters.
MisspellKeyword ==
    /\ CanEdit
    /\ toks[1].t = "kw"
    /\ toks[1].x = << >>
    /\ toks' = [toks EXCEPT ![1].x = Misspelling]
    /\ edits' = edits + 1
    /\ UNCHANGED <<doc, res>>

\* The text ends before its k-th token.
Truncate(k) ==
    /\ CanEdit
    /\ k > 1
    /\ toks[k].t # "gap"
    /\ toks' = SubSeq(toks, 1, k - 1)
    /\ edits' = edits + 1
    /\ UNCHANGED <<doc, res>>

Result(parser, view, owned) == Some([parser |-> parser, view |-> view, owned |-> owned])

ParseConst ==
    /\ res = None
    /\ \E in \in {Input} :
           res' = Result("Const", ConstRefParse(in, Start), ConstParse(in, Start))
    /\ UNCHANGED <<doc, toks, edits>>

ParseTypedef ==
    /\ res = None
    /\ \E in \in {Input} :
           res' = Result("Typedef", TypedefRefParse(in, Start), TypedefParse(in, Start))
    /\ UNCHANGED <<doc, toks, edits>>

ParseEnum ==
    /\ res = None
    /\ \E in \in {Input} :
           res' = Result("Enum", EnumRefParse(in, Start), EnumParse(in, Start))
    /\ UNCHANGED <<doc, toks, edits>>

ParseEnumValue ==
    /\ res = None
    /\ \E in \in {Input} :
           res' = Result("EnumValue", EnumValueRefParse(in, Start), EnumValueParse(in, Start))
    /\ UNCHANGED <<doc, toks, edits>>

ParseStruct ==
    /\ res = None
    /\ \E in \in {Input} :
           res' = Result("Struct", StructRefParse(in, Start), StructParse(in, Start))
    /\ UNCHANGED <<doc, toks, edits>>

ParseUnion ==
    /\ res = None
    /\ \E in \in {Input} :
           res' = Result("Union", UnionRefParse(in, Start), UnionParse(in, Start))
    /\ UNCHANGED <<doc, toks, edits>>

ParseException ==
    /\ res = None
    /\ \E in \in {Input} :
           res' = Result("Exception", ExceptionRefParse(in, Start), ExceptionParse(in, Start))
    /\ UNCHANGED <<doc, toks, edits>>

ParseService ==
    /\ res = None
    /\ \E in \in {Input} :
           res' = Result("Service", ServiceRefParse(in, Start), ServiceParse(in, Start))
    /\ UNCHANGED <<doc, toks, edits>>

Next ==
    \/ \E d \in DocShapes : AttachDoc(d)
    \/ \E i \in 1..Len(toks), u \in Units : InsertSeparator(i, u)
    \/ \E i \in 1..Len(toks) : \E c \in SepChoices(toks[i].role) : ChangeListSeparator(i, c)
    \/ MisspellKeyword
    \/ \E k \in 1..Len(toks) : Truncate(k)
    \/ ParseConst
    \/ ParseTypedef
    \/ ParseEnum
    \/ ParseEnumValue
    \/ ParseStruct
    \/ ParseUnion
    \/ ParseException
    \/ ParseService

Spec == Init /\ [][Next]_vars

(***************************************************************************)
(* What the text says: the construct it holds, whether it is whole, and    *)
(* the members, fields and functions its tokens write.                     *)
(***************************************************************************)
Definitions == {"Const", "Typedef", "Enum", "Struct", "Union", "Exception", "Service"}

Keyword == toks[1].s

KindOf(kw) ==
    CASE kw = kw_const -> "Const"
      [] kw = kw_typedef -> "Typedef"
      [] kw = kw_enum -> "Enum"
      [] kw = kw_struct -> "Struct"
      [] kw = kw_union -> "Union"
      [] kw = kw_exception -> "Exception"
      [] kw = kw_service -> "Service"
      [] OTHER -> ""

\* The parser that ran is the parser of the construct the text holds.
Own(r) == r.parser = KindOf(Keyword)

\* ts is the text c of the catalogue, up to the separators written in it.
SameShape(c, ts) ==
    /\ Len(c) = Len(ts)
    /\ \A i \in 1..Len(c) :
          /\ c[i].t = ts[i].t
          /\ c[i].role = ts[i].role
          /\ c[i].t = "sep" \/ c[i].s = ts[i].s

\* No token of the text was cut off.
Whole == \E c \in Catalogue : SameShape(c, toks)

WellSpelled == toks[1].x = << >>

\* Nothing but an attached doc comment stands before the keyword.
DocAttachedOrAbsent == doc = NoDoc \/ doc.attached

WellFormed == Whole /\ WellSpelled /\ DocAttachedOrAbsent

ExpectedDoc == IF doc.attached THEN Some(doc.text) ELSE None

TokIdx(role, f) == {i \in 1..Len(toks) : toks[i].role = role /\ toks[i].f = f}

Has(role, f) == TokIdx(role, f) # {}

IdxOf(role, f) == CHOOSE i \in TokIdx(role, f) : TRUE

TokOf(role, f) == toks[IdxOf(role, f)]

OptAnn(role, f) == IF Has(role, f) THEN Some(TokOf(role, f).ann) ELSE None

Count(role) == Cardinality({i \in 1..Len(toks) : toks[i].role = role})

\* The first position of the buffer after token i.
EndOf(i) == Len(doc.s) + Len(Flatten(toks, 1, i)) + 1

ExpectedChildren ==
    [f \in 1..Count("member") |->
        [name |-> TokOf("member", f).s, value |-> OptAnn("mvalue", f)]]

ExpectedFields ==
    [f \in 1..Count("fname") |->
        [id |-> OptAnn("fid", f),
         required |-> OptAnn("freq", f),
         type_ |-> TokOf("ftype", f).ann,
         name |-> TokOf("fname", f).s,
         default |-> OptAnn("fdefault", f)]]

ExpectedExtension == IF Has("base", 0) THEN Some(TokOf("base", 0).s) ELSE None

\* The typedef texts whose underlying type is a base or a container type.
Acceptable ==
    WellFormed /\ (Keyword = kw_typedef => TokOf("type", 0).cls \in {"base", "container"})

(***************************************************************************)
(* The owned value o holds what the view value v borrows from the buffer.  *)
(***************************************************************************)
SameText(in, v, o) == o = SubSeq(in, v.s, v.e - 1)

SameOption(S(_, _, _), in, v, o) ==
    /\ Len(v) = Len(o)
    /\ v # None => S(in, v[1], o[1])

SameVec(S(_, _, _), in, v, o) ==
    /\ Len(v) = Len(o)
    /\ \A i \in 1..Len(v) : S(in, v[i], o[i])

RECURSIVE SameType(_, _, _)
SameType(in, v, o) ==
    /\ o.t = v.t
    /\ CASE v.t = "Identifier" -> SameText(in, v.name, o.name)
         [] v.t \in {"List", "Set"} -> SameType(in, v.elem, o.elem)
         [] v.t = "Map" -> SameType(in, v.key, o.key) /\ SameType(in, v.value, o.value)
         [] OTHER -> TRUE

RECURSIVE SameValue(_, _, _)
SamePair(in, v, o) == SameValue(in, v[1], o[1]) /\ SameValue(in, v[2], o[2])

SameValue(in, v, o) ==
    /\ o.v = v.v
    /\ CASE v.v = "Int" -> o.i = v.i
         [] v.v = "Literal" -> SameText(in, v.s, o.s)
         [] v.v = "Identifier" -> SameText(in, v.name, o.name)
         [] v.v = "List" -> SameVec(SameValue, in, v.items, o.items)
         [] v.v = "Map" -> SameVec(SamePair, in, v.pairs, o.pairs)

SameField(in, v, o) ==
    /\ o.id = v.id
    /\ o.required = v.required
    /\ SameType(in, v.type_, o.type_)
    /\ SameText(in, v.name, o.name)
    /\ SameOption(SameValue, in, v.default, o.default)

SameFields(in, v, o) == SameVec(SameField, in, v, o)

SameFunction(in, v, o) ==
    /\ o.oneway = v.oneway
    /\ SameOption(SameType, in, v.returns, o.returns)
    /\ SameText(in, v.name, o.name)
    /\ SameFields(in, v.parameters, o.parameters)
    /\ SameOption(SameFields, in, v.exceptions, o.exceptions)

SameEnumValue(in, v, o) == SameText(in, v.name, o.name) /\ o.value = v.value

SameNode(k, in, v, o) ==
    /\ DOMAIN o = DOMAIN v
    /\ k = "Typedef" \/ SameText(in, v.name, o.name)
    /\ k = "EnumValue" \/ SameOption(SameText, in, v.doc_comment, o.doc_comment)
    /\ CASE k = "Const" -> SameType(in, v.type_, o.type_) /\ SameValue(in, v.value, o.value)
         [] k = "Typedef" -> SameType(in, v.old, o.old) /\ SameText(in, v.alias, o.alias)
         [] k = "Enum" -> SameVec(SameEnumValue, in, v.children, o.children)
         [] k = "EnumValue" -> o.value = v.value
         [] k \in {"Struct", "Union", "Exception"} -> SameFields(in, v.fields, o.fields)
         [] k = "Service" ->
               /\ SameOption(SameText, in, v.extension, o.extension)
               /\ SameVec(SameFunction, in, v.functions, o.functions)

Converted(r, in) ==
    /\ r.owned.ok = r.view.ok
    /\ r.owned.kind = r.view.kind
    /\ r.owned.pos = r.view.pos
    /\ IF r.view.ok THEN SameNode(r.parser, in, r.view.val, r.owned.val)
       ELSE r.owned.val = None

(***************************************************************************)
(* Properties                                                              *)
(***************************************************************************)
\* C1: for every definition kind and every input, the owned parser succeeds
\* exactly when the view parser does, with the same remainder, and its node
\* holds, field for field and in the same order, the text the view node
\* borrows: nothing is dropped or reinterpreted by the conversion.
C1_OwnedIsConvertedView == res # None => Converted(res[1], Input)

C1_Witness ==
    /\ res # None
    /\ res[1].parser = "Service"
    /\ res[1].view.ok
    /\ res[1].view.val.extension # None
    /\ Len(res[1].owned.val.functions) = 2
    /\ res[1].owned.val.functions[1].parameters # << >>

MisspelledCase(r) == Own(r) /\ toks[1].x = Misspelling /\ DocAttachedOrAbsent

\* C2 as stated: a parser given its keyword misspelled by trailing
\* characters fails, and the failure is positioned at the original start of
\* the input.
C2_FailsAtStart ==
    res # None /\ MisspelledCase(res[1]) => ~res[1].view.ok /\ res[1].view.pos = 1

\* C2 as amended: a parser given its keyword misspelled by trailing
\* characters fails and returns no node; the failure is positioned right
\* after the matched keyword prefix, where the required separator is
\* missing.
C2_FailsAfterKeyword ==
    res # None /\ MisspelledCase(res[1]) =>
        /\ ~res[1].view.ok
        /\ res[1].view.val = None
        /\ res[1].view.pos = EndOf(1) - Len(Misspelling)
        /\ ~res[1].owned.ok
        /\ res[1].owned.pos = res[1].view.pos

C2_Witness ==
    /\ res # None
    /\ res[1].parser = "Struct"
    /\ Keyword = kw_struct
    /\ toks[1].x = Misspelling
    /\ ~res[1].view.ok
    /\ res[1].view.pos = 7

EnumCase(r) == r.parser = "Enum" /\ Own(r) /\ WellFormed

\* C3: whatever separates the members of an enum (a comma, a semicolon,
\* each with optional whitespace or comments around it, or a bare gap), and
\* with or without a trailing list separator before '}', the Enum parser
\* returns the same node: the members in source order, each with the value
\* Some(n) when '= n' is written and None otherwise.
C3_EnumSeparatorsOptional ==
    res # None /\ EnumCase(res[1]) =>
        /\ res[1].view.ok
        /\ res[1].owned.ok
        /\ res[1].owned.val =
              [doc_comment |-> ExpectedDoc, name |-> TokOf("name", 0).s,
               children |-> ExpectedChildren]
        /\ Len(res[1].view.val.children) = Len(ExpectedChildren)
        /\ \A f \in 1..Len(ExpectedChildren) :
              res[1].view.val.children[f].value = ExpectedChildren[f].value

C3_Witness ==
    /\ res # None
    /\ EnumCase(res[1])
    /\ res[1].owned.ok
    /\ Len(res[1].owned.val.children) = 3
    /\ \E i \in 1..Len(toks) : toks[i].role = "between" /\ toks[i].s = <<" ">>

RECURSIVE Bare(_, _, _)
\* The characters of the tokens a..b of ts without the separators inserted
\* between them.
Bare(ts, a, b) ==
    IF a > b THEN << >>
    ELSE IF a = b THEN (IF ts[a].t = "gap" THEN ts[a].s ELSE ts[a].s \o ts[a].x)
    ELSE Bare(ts, a, (a + b) \div 2) \o Bare(ts, (a + b) \div 2 + 1, b)

\* The buffer before any separator was inserted.
Stripped == doc.s \o Bare(toks, 1, Len(toks))

OwnedParse(k, in) ==
    CASE k = "Const" -> ConstParse(in, Start)
      [] k = "Typedef" -> TypedefParse(in, Start)
      [] k = "Enum" -> EnumParse(in, Start)
      [] k = "EnumValue" -> EnumValueParse(in, Start)
      [] k = "Struct" -> StructParse(in, Start)
      [] k = "Union" -> UnionParse(in, Start)
      [] k = "Exception" -> ExceptionParse(in, Start)
      [] k = "Service" -> ServiceParse(in, Start)

SameNodeLonger(r, base) ==
    base.ok => r.owned.ok /\ r.owned.val = base.val /\ r.owned.pos >= base.pos

\* C4: when a parser accepts a text, it accepts the text with whitespace or
\* comments inserted at the places between tokens where a separator may
\* stand, and returns the identical node; only the consumed length changes.
C4_InsertedSeparatorsIgnored ==
    res # None =>
        \A in \in {Stripped} : SameNodeLonger(res[1], OwnedParse(res[1].parser, in))

C4_Witness ==
    /\ res # None
    /\ res[1].parser = "Struct"
    /\ res[1].owned.ok
    /\ \E i \in 1..Len(toks) :
          toks[i].t = "gap" /\ toks[i].role = "optional" /\ toks[i].x = <<"/", "/", "c", "\n">>

FieldsCase(r) == r.parser \in {"Struct", "Union", "Exception"} /\ Own(r) /\ WellFormed

\* C5: the Struct, Union and Exception parsers return the fields in source
\* order, each with its requiredness as written (required, optional, or
\* unspecified when no keyword is written), its id and its default value,
\* in the view node and in the owned node.
C5_FieldsAsWritten ==
    res # None /\ FieldsCase(res[1]) =>
        /\ res[1].view.ok
        /\ res[1].owned.ok
        /\ res[1].owned.val.fields = ExpectedFields
        /\ Len(res[1].view.val.fields) = Len(ExpectedFields)
        /\ \A f \in 1..Len(ExpectedFields) :
              /\ res[1].view.val.fields[f].required = ExpectedFields[f].required
              /\ res[1].view.val.fields[f].id = ExpectedFields[f].id

C5_Witness ==
    /\ res # None
    /\ res[1].parser = "Struct"
    /\ FieldsCase(res[1])
    /\ res[1].owned.ok
    /\ res[1].owned.val.fields[1].required = Some(FALSE)
    /\ res[1].owned.val.fields[2].required = None
    /\ res[1].owned.val.fields[2].id = Some(2)
    /\ res[1].owned.val.fields[2].default = Some([v |-> "Int", i |-> 18])

ServiceCase(r) == r.parser = "Service" /\ Own(r) /\ WellFormed

\* C6: the Service parser returns extension = Some(base) exactly when an
\* 'extends base' clause stands between the name and '{', and the functions
\* in source order, one node per declared function, two identical
\* functions both being kept.
C6_ExtensionAndFunctions ==
    res # None /\ ServiceCase(res[1]) =>
        /\ res[1].view.ok
        /\ res[1].owned.ok
        /\ res[1].owned.val.name = TokOf("name", 0).s
        /\ res[1].owned.val.extension = ExpectedExtension
        /\ Len(res[1].view.val.extension) = Len(ExpectedExtension)
        /\ Len(res[1].owned.val.functions) = Count("fnname")
        /\ Len(res[1].view.val.functions) = Count("fnname")
        /\ \A f \in 1..Count("fnname") :
              res[1].owned.val.functions[f].name = TokOf("fnname", f).s

C6_Witness ==
    /\ res # None
    /\ ServiceCase(res[1])
    /\ res[1].owned.ok
    /\ res[1].owned.val.extension = Some(<<"B", "a", "s", "e", "S", "e", "r", "v", "i", "c", "e">>)
    /\ Len(res[1].owned.val.functions) = 2
    /\ res[1].owned.val.functions[1] = res[1].owned.val.functions[2]

ConstCase(r) == r.parser = "Const" /\ Own(r) /\ WellFormed

TrailingWritten == TokOf("trailing", 0).s # << >>

\* The end of the const: after the trailing list separator when one is
\* written, after the value otherwise.
ConstEnd == IF TrailingWritten THEN EndOf(IdxOf("trailing", 0)) ELSE EndOf(IdxOf("value", 0))

\* C7: with or without a trailing list separator (optionally preceded by
\* whitespace or comments) the Const parser returns the same
\* Const{name, type, value} node, and a trailing list separator that is
\* written is consumed: the remainder starts after it.
C7_TrailingListSeparatorConsumed ==
    res # None /\ ConstCase(res[1]) =>
        /\ res[1].view.ok
        /\ res[1].owned.ok
        /\ res[1].owned.val =
              [doc_comment |-> ExpectedDoc, name |-> TokOf("name", 0).s,
               type_ |-> TokOf("type", 0).ann, value |-> TokOf("value", 0).ann]
        /\ res[1].view.pos = ConstEnd
        /\ res[1].owned.pos = ConstEnd

C7_Witness ==
    /\ res # None
    /\ ConstCase(res[1])
    /\ res[1].owned.ok
    /\ TokOf("trailing", 0).s = <<",">>
    /\ res[1].owned.pos = EndOf(IdxOf("trailing", 0))
    /\ res[1].owned.val.value = [v |-> "Literal", s |-> <<"y", "e", "s", "!">>]

TypedefCase(r) == r.parser = "Typedef" /\ Own(r) /\ WellFormed

\* C8: the Typedef parser accepts exactly the underlying types that are a
\* base type or a container type, returning Typedef{old, alias} with that
\* type and the alias; a bare named reference as underlying type fails.
C8_TypedefOfBaseOrContainer ==
    res # None /\ TypedefCase(res[1]) =>
        /\ res[1].view.ok <=> TokOf("type", 0).cls \in {"base", "container"}
        /\ res[1].owned.ok <=> res[1].view.ok
        /\ res[1].owned.ok =>
              /\ res[1].owned.val =
                    [doc_comment |-> ExpectedDoc, old |-> TokOf("type", 0).ann,
                     alias |-> TokOf("alias", 0).s]
              /\ res[1].owned.pos = Len(Input) + 1

C8_Witness ==
    /\ res # None
    /\ TypedefCase(res[1])
    /\ TokOf("type", 0).cls = "named"
    /\ TokOf("type", 0).s = <<"F", "o", "o">>
    /\ ~res[1].view.ok
    /\ ~res[1].owned.ok

\* The keyword of the parser stands in the text and something required
\* after it was cut off.
Incomplete(r) ==
    /\ Own(r)
    /\ WellSpelled
    /\ DocAttachedOrAbsent
    /\ ~Whole
    /\ Keyword = kw_const => ~Has("value", 0)

\* C9 as stated: a failure after the keyword matched is a hard failure, a
\* kind of its own that alternative-trying does not absorb, and a failure
\* where the construct does not apply is a backtrackable NoMatch.
C9_HardFailureIsDistinct ==
    res # None /\ res[1].parser \in Definitions /\ ~res[1].view.ok =>
        IF Incomplete(res[1]) THEN res[1].view.kind = "Failure"
        ELSE res[1].view.kind = "Error"

\* C9 as amended: a definition parser returns a complete node or a failure
\* without a node, never a node built from some of its required sub-rules;
\* every failure is of the one recoverable kind, also after the keyword
\* matched, and the two cases differ in the position reported only: where
\* the keyword was expected when the construct does not apply, at or past
\* the end of the keyword when a required sub-rule after it failed.
C9_OneRecoverableKind ==
    res # None /\ res[1].parser \in Definitions =>
        /\ res[1].view.ok \/ (res[1].view.kind = "Error" /\ res[1].view.val = None)
        /\ res[1].owned.ok \/ (res[1].owned.kind = "Error" /\ res[1].owned.val = None)
        /\ Incomplete(res[1]) =>
              /\ ~res[1].view.ok
              /\ ~res[1].owned.ok
              /\ res[1].view.pos >= EndOf(1)
        /\ ~Own(res[1]) /\ DocAttachedOrAbsent =>
              /\ ~res[1].view.ok
              /\ res[1].view.pos = Len(doc.s) + 1

C9_Witness ==
    /\ res # None
    /\ res[1].parser = "Struct"
    /\ Incomplete(res[1])
    /\ Has("fname", 1)
    /\ ~res[1].view.ok
    /\ res[1].view.kind = "Error"
    /\ res[1].view.pos > EndOf(1)

\* C10: the node's doc_comment is Some(comment text) exactly when the input
\* begins with a comment followed by one line break, optional horizontal
\* whitespace and the keyword, and None when the input begins with the
\* keyword; in both cases the construct is parsed.
C10_DocCommentAttached ==
    res # None /\ res[1].parser \in Definitions =>
        /\ res[1].view.ok =>
              /\ res[1].owned.val.doc_comment = ExpectedDoc
              /\ SameOption(SameText, Input, res[1].view.val.doc_comment, ExpectedDoc)
        /\ Own(res[1]) /\ Acceptable => res[1].view.ok /\ res[1].owned.ok

C10_Witness ==
    /\ res # None
    /\ res[1].parser = "Exception"
    /\ res[1].owned.ok
    /\ doc.s = <<"/", "*", " ", "d", "o", "c", " ", "*", "/", "\n", " ", "\t">>
    /\ res[1].owned.val.doc_comment = Some(<<" ", "d", "o", "c", " ">>)

\* Something other than an attached doc comment is written before the
\* keyword: blanks, a line break, a comment on the line of the keyword, a
\* comment and an empty line, or two comments.
Detached == doc # NoDoc /\ ~doc.attached

\* C11: for every definition parser, an input in which anything other than
\* an attached doc comment precedes the keyword (leading whitespace or a
\* line break, a comment on the same line as the keyword, a comment
\* followed by a blank line) makes the whole parse fail; it never succeeds
\* with doc_comment None.
C11_DetachedPrefixFails ==
    res # None /\ res[1].parser \in Definitions /\ Detached =>
        /\ ~res[1].view.ok
        /\ res[1].view.val = None
        /\ ~res[1].owned.ok
        /\ res[1].owned.val = None

C11_Witness ==
    /\ res # None
    /\ res[1].parser = "Const"
    /\ Own(res[1])
    /\ Whole
    /\ WellSpelled
    /\ doc.s = <<"/", "*", " ", "d", "o", "c", " ", "*", "/", "\n", "\n">>
    /\ ~res[1].view.ok
    /\ ~res[1].owned.ok

====
